---- MODULE Spec2Model ----
(***************************************************************************)
(* Model of package yamlconfig (src/yamlconfig.go): LoadConfig opens a     *)
(* YAML file, decodes it into the caller's struct and validates, by        *)
(* reflection, that every required field of the decoded tree is non-empty. *)
(*                                                                         *)
(* A reflect.Value is a record [kind, str, num, elems]:                    *)
(*   kind   the reflect.Kind ("Invalid" is the zero Value);                *)
(*   str    v.String() of a String;                                        *)
(*   num    v.Int()/v.Uint()/v.Float() of a number, 1/0 for a Bool;        *)
(*   elems  the fields of a Struct (records [Name, Tag, val], in           *)
(*          declaration order), the elements of a Slice/Map/Array, the     *)
(*          pointee of a non-nil Ptr (one element; <<>> when nil).         *)
(* A field's Name is its path from the root (<<2, 1>> is the first field   *)
(* of the root's second field), so that no two fields share a name.        *)
(***************************************************************************)
EXTENDS Naturals, Sequences, FiniteSets

\* Bound: the number of fields (at every depth together) of a destination tree.
MaxFields == 3

\* Bound: the number of fields of the trees passed as a destination that is
\* not a pointer to a struct.
MaxBadFields == 1

\* Bound: the number of fields of a destination tree whose fields hold
\* containers and pointers to pointers.
MaxContainerFields == 2

\* returned holds the outcome of the caller's earlier call of LoadConfig on the
\* same file, if there was one.
VARIABLES pc, file, config, handle, calls, err, trace, returned

vars == <<pc, file, config, handle, calls, err, trace, returned>>

----------------------------------------------------------------------------
\* reflect.Value

Value(kind, str, num, elems) ==
    [kind |-> kind, str |-> str, num |-> num, elems |-> elems]

\* reflect.Value{}: the zero Value, of Kind Invalid.
ZeroValue == Value("Invalid", "", 0, <<>>)

StringV(s) == Value("String", s, 0, <<>>)
BoolV(b)   == Value("Bool", "", IF b THEN 1 ELSE 0, <<>>)
SliceV(es) == Value("Slice", "", 0, es)
ArrayV(es) == Value("Array", "", 0, es)
\* A map is drawn by its values; its keys play no part.
MapV(es)   == Value("Map", "", 0, es)
StructV(fs) == Value("Struct", "", 0, fs)
PtrTo(v)   == Value("Ptr", "", 0, <<v>>)
NilPtr     == Value("Ptr", "", 0, <<>>)

Kind(v)     == v.kind
IsValid(v)  == v.kind # "Invalid"
IsNil(v)    == v.elems = <<>>
\* v.Elem(): the pointee; the zero Value for a nil pointer.
Elem(v)     == IF v.elems = <<>> THEN ZeroValue ELSE v.elems[1]
NumField(v) == Len(v.elems)
\* v.Len() of a Slice, Map or Array.
VLen(v)     == Len(v.elems)

StructField(name, tag, v) == [Name |-> name, Tag |-> tag, val |-> v]

----------------------------------------------------------------------------
\* Errors.  nil is NoErr; fmt.Errorf("...: %s", typ.Name) keeps the name.

NoErr == [msg |-> "", field |-> <<>>]
\* A variant of the violation: it names the struct that holds the field.
MissingErr_Enclosing(name) ==
    [msg |-> "missing required config item", field |-> SubSeq(name, 1, Len(name) - 1)]

MissingErr(name) == [msg |-> "missing required config item", field |-> name]
NotStructPtrErr == [msg |-> "expected a pointer to a struct", field |-> <<>>]
OsErr == [msg |-> "open: no such file", field |-> <<>>]
YamlErr == [msg |-> "yaml: decode error", field |-> <<>>]

\* fmt.Errorf(prefix + ": %w", cause)
Wrap(prefix, cause) == [prefix |-> prefix, cause |-> cause]
Nil == Wrap("", NoErr)

----------------------------------------------------------------------------
\* The validator (src/yamlconfig.go:56-157)

IntKinds   == {"Int", "Int8", "Int16", "Int32", "Int64"}
UintKinds  == {"Uint", "Uint8", "Uint16", "Uint32", "Uint64"}
FloatKinds == {"Float32", "Float64"}
LenKinds   == {"Slice", "Map", "Array"}

RECURSIVE isEmpty(_)
RECURSIVE validateStruct(_)
RECURSIVE validateFields(_, _)

\* A variant of isEmpty: reflect.Bool answers !v.Bool(), so false reads as missing.
isEmpty_BoolFalseEmpty(v) ==
    CASE Kind(v) = "Ptr"        -> IsNil(v) \/ isEmpty(Elem(v))
      [] Kind(v) = "String"     -> v.str = ""
      [] Kind(v) \in LenKinds   -> VLen(v) = 0
      [] Kind(v) \in IntKinds   -> v.num = 0
      [] Kind(v) \in UintKinds  -> v.num = 0
      [] Kind(v) \in FloatKinds -> v.num = 0
      [] Kind(v) = "Bool"       -> v.num = 0
      [] Kind(v) = "Struct"     ->
           \A i \in 1..NumField(v) : isEmpty(v.elems[i].val)
      [] OTHER                  -> FALSE

\* A variant of isEmpty: a struct is never empty.
isEmpty_StructNeverEmpty(v) ==
    CASE Kind(v) = "Ptr"        -> IsNil(v) \/ isEmpty(Elem(v))
      [] Kind(v) = "String"     -> v.str = ""
      [] Kind(v) \in LenKinds   -> VLen(v) = 0
      [] Kind(v) \in IntKinds   -> v.num = 0
      [] Kind(v) \in UintKinds  -> v.num = 0
      [] Kind(v) \in FloatKinds -> v.num = 0
      [] Kind(v) = "Bool"       -> FALSE
      [] OTHER                  -> FALSE

\* A variant of isEmpty: a pointer is empty only when it is nil.
isEmpty_PtrNilOnly(v) ==
    CASE Kind(v) = "Ptr"        -> IsNil(v)
      [] Kind(v) = "String"     -> v.str = ""
      [] Kind(v) \in LenKinds   -> VLen(v) = 0
      [] Kind(v) \in IntKinds   -> v.num = 0
      [] Kind(v) \in UintKinds  -> v.num = 0
      [] Kind(v) \in FloatKinds -> v.num = 0
      [] Kind(v) = "Bool"       -> FALSE
      [] Kind(v) = "Struct"     ->
           \A i \in 1..NumField(v) : isEmpty(v.elems[i].val)
      [] OTHER                  -> FALSE

\* isEmpty: the switch on v.Kind(); the Struct case is the loop that returns
\* false at the first non-empty field and true after the last.
isEmpty(v) ==
    CASE Kind(v) = "Ptr"        -> IsNil(v) \/ isEmpty(Elem(v))
      [] Kind(v) = "String"     -> v.str = ""
      [] Kind(v) \in LenKinds   -> VLen(v) = 0
      [] Kind(v) \in IntKinds   -> v.num = 0
      [] Kind(v) \in UintKinds  -> v.num = 0
      [] Kind(v) \in FloatKinds -> v.num = 0
      [] Kind(v) = "Bool"       -> FALSE
      [] Kind(v) = "Struct"     ->
           \A i \in 1..NumField(v) : isEmpty(v.elems[i].val)
      [] OTHER                  -> FALSE

\* A variant of getNestedStruct: only a struct held by value is nested.
getNestedStruct_StructOnly(field) ==
    IF Kind(field) = "Struct" THEN field ELSE ZeroValue

\* A variant of getNestedStruct: pointers are followed to the struct at their
\* end, and a container of structs yields its first element.
RECURSIVE getNestedStruct_Deep(_)
getNestedStruct_Deep(field) ==
    CASE Kind(field) = "Struct" -> field
      [] Kind(field) = "Ptr" ->
           IF IsNil(field) THEN ZeroValue ELSE getNestedStruct_Deep(Elem(field))
      [] Kind(field) \in LenKinds ->
           IF VLen(field) > 0 /\ Kind(field.elems[1]) = "Struct"
           THEN field.elems[1] ELSE ZeroValue
      [] OTHER -> ZeroValue

\* getNestedStruct: the struct to validate for a field, the zero Value if the
\* field is no struct and no non-nil pointer to one.
getNestedStruct(field) ==
    CASE Kind(field) = "Struct" -> field
      [] Kind(field) = "Ptr" ->
           IF ~IsNil(field) /\ Kind(Elem(field)) = "Struct"
           THEN Elem(field) ELSE ZeroValue
      [] OTHER -> ZeroValue

\* A variant of isStructPresent: a pointer is judged as a value is.
isStructPresent_NotEmpty(field) == ~isEmpty(field)

\* A variant of isStructPresent: every struct is present.
isStructPresent_Always(field) == TRUE

\* isStructPresent
isStructPresent(field) ==
    IF Kind(field) = "Ptr" THEN ~IsNil(field) ELSE ~isEmpty(field)

\* What a validation returns: the error, and the log of what it did, an
\* "enter" for each call of validateStruct and a "field" for each iteration of
\* its loop, in order.
Result(e, t) == [err |-> e, trace |-> t]
EnterEvent == [op |-> "enter", name |-> <<>>]
FieldEvent(name) == [op |-> "field", name |-> name]

\* A variant of the tag test: no tag exempts a field.
isOmitEmpty_Never(typ) == FALSE

\* A variant of the tag test: the comparison is inverted.
isOmitEmpty_Inverted(typ) == typ.Tag # "omitempty"

\* typ.Tag.Get("yamlconfig") == "omitempty"
isOmitEmpty(typ) == typ.Tag = "omitempty"

\* A variant of the loop: a violation is noted and the loop goes on, so that
\* the last violation found is the one returned.
validateFields_LastViolation(val, i) ==
    IF i > NumField(val) THEN Result(NoErr, <<>>)
    ELSE
      LET field == val.elems[i].val
          typ == val.elems[i]
          nested == getNestedStruct(field)
          here == <<FieldEvent(typ.Name)>>
          rest == validateFields(val, i + 1)
      IN  IF ~isOmitEmpty(typ) /\ isEmpty(field)
          THEN Result(IF rest.err # NoErr THEN rest.err ELSE MissingErr(typ.Name),
                      here \o rest.trace)
          ELSE IF IsValid(nested) /\ isStructPresent(field)
          THEN LET r == validateStruct(nested)
               IN  Result(IF rest.err # NoErr THEN rest.err ELSE r.err,
                          here \o r.trace \o rest.trace)
          ELSE Result(rest.err, here \o rest.trace)

\* The loop of validateStruct from its i-th iteration on (fields are numbered
\* from 1 here, from 0 in the source).
validateFields(val, i) ==
    IF i > NumField(val) THEN Result(NoErr, <<>>)
    ELSE
      LET field == val.elems[i].val
          typ == val.elems[i]
          nested == getNestedStruct(field)
          here == <<FieldEvent(typ.Name)>>
      IN  IF ~isOmitEmpty(typ) /\ isEmpty(field)
          THEN Result(MissingErr(typ.Name), here)
          ELSE IF IsValid(nested) /\ isStructPresent(field)
          THEN LET r == validateStruct(nested)
               IN  IF r.err # NoErr
                   THEN Result(r.err, here \o r.trace)
                   ELSE LET rest == validateFields(val, i + 1)
                        IN  Result(rest.err, here \o r.trace \o rest.trace)
          ELSE LET rest == validateFields(val, i + 1)
               IN  Result(rest.err, here \o rest.trace)

\* validateStruct
validateStruct(val) ==
    LET r == validateFields(val, 1)
    IN  Result(r.err, <<EnterEvent>> \o r.trace)

\* A variant of validateConfig: a struct passed by value is validated too.
validateConfig_AnyStruct(cfg) ==
    LET val == IF Kind(cfg) = "Ptr" THEN Elem(cfg) ELSE cfg
    IN  IF Kind(val) # "Struct"
        THEN Result(NotStructPtrErr, <<>>)
        ELSE validateStruct(val)

\* validateConfig: val is reflect.ValueOf(config).
validateConfig(cfg) ==
    LET val == cfg
    IN  IF Kind(val) # "Ptr" \/ Kind(Elem(val)) # "Struct"
        THEN Result(NotStructPtrErr, <<>>)
        ELSE validateStruct(Elem(val))

----------------------------------------------------------------------------
\* The inputs: destination trees and source files

\* The yamlconfig struct tags: none, or the one recognised value.
Tags == {"", "omitempty"}

\* The values of a field without fields of its own.
LeafValues ==
    { StringV(""), StringV("a"), BoolV(FALSE), SliceV(<<>>), NilPtr }

\* A struct and a pointer to a struct, before their fields are filled in.
Composites == { StructV(<<>>), PtrTo(StructV(<<>>)) }

\* A tree is drawn as the list of its fields in declaration order, each with
\* its depth (1 for the root's fields), its tag and its value.
Node(depth, tag, v) == [depth |-> depth, tag |-> tag, v |-> v]

\* nodes is such a list: it starts at depth 1, a field is at most one level
\* below the field before it, and only a struct or a pointer to one has fields.
WellFormed(nodes) ==
    /\ Len(nodes) > 0 => nodes[1].depth = 1
    /\ \A i \in 1..(Len(nodes) - 1) :
         /\ nodes[i + 1].depth <= nodes[i].depth + 1
         /\ nodes[i + 1].depth = nodes[i].depth + 1 => nodes[i].v \in Composites

\* The first index after from, up to to, of a field at depth; to + 1 if none.
RECURSIVE NextAt(_, _, _, _)
NextAt(nodes, from, to, depth) ==
    IF from > to THEN to + 1
    ELSE IF nodes[from].depth = depth THEN from
    ELSE NextAt(nodes, from + 1, to, depth)

\* The fields of the struct at path prefix, declared by nodes[from..to]; ord is
\* the position of the first of them in the struct.
RECURSIVE BuildFields(_, _, _, _, _)
BuildFields(nodes, from, to, prefix, ord) ==
    IF from > to THEN <<>>
    ELSE
      LET next == NextAt(nodes, from + 1, to, nodes[from].depth)
          name == prefix \o <<ord>>
          sub  == BuildFields(nodes, from + 1, next - 1, name, 1)
          tmpl == nodes[from].v
          v    == IF tmpl = StructV(<<>>) THEN StructV(sub)
                  ELSE IF tmpl = PtrTo(StructV(<<>>)) THEN PtrTo(StructV(sub))
                  ELSE tmpl
      IN  <<StructField(name, nodes[from].tag, v)>>
            \o BuildFields(nodes, next, to, prefix, ord + 1)

\* The struct that nodes declares.
Tree(nodes) == StructV(BuildFields(nodes, 1, Len(nodes), <<>>, 1))

\* The lists of n fields.
NodeLists(n) ==
    { nodes \in [1..n -> { Node(d, t, v) : d \in 1..n, t \in Tags,
                                            v \in LeafValues \cup Composites }] :
        WellFormed(nodes) }

\* The zero value of v's type: what the caller constructs before the call.
RECURSIVE Zero(_)
Zero(v) ==
    CASE Kind(v) = "Struct" ->
           StructV([i \in 1..NumField(v) |->
                      StructField(v.elems[i].Name, v.elems[i].Tag, Zero(v.elems[i].val))])
      [] Kind(v) = "Ptr" -> NilPtr
      [] Kind(v) = "Array" -> ArrayV([i \in 1..VLen(v) |-> Zero(v.elems[i])])
      [] OTHER -> Value(Kind(v), "", 0, <<>>)

\* The destinations that are no pointer to a struct: a struct passed by value,
\* nil, a pointer to a pointer, a pointer to a string, a nil pointer.
BadDestinations(t) ==
    { t, ZeroValue, PtrTo(PtrTo(t)), PtrTo(StringV("")), NilPtr }

\* A record stored as the element of a container or behind a pointer to a
\* pointer: one required string s and one optional string t.  Its fields are
\* named <<0, i>>, apart from the fields of the tree proper.
ElementRecord(s, t) ==
    StructV(<<StructField(<<0, 1>>, "", StringV(s)),
              StructField(<<0, 2>>, "omitempty", StringV(t))>>)

\* The values of a field that holds a container or a pointer to a pointer,
\* with and without elements, the elements' required string empty or not.
ContainerValues ==
    { SliceV(<<>>), SliceV(<<ElementRecord("", "a")>>),
      SliceV(<<ElementRecord("a", "")>>),
      MapV(<<>>), MapV(<<ElementRecord("", "")>>),
      ArrayV(<<>>), ArrayV(<<ElementRecord("", "")>>),
      NilPtr,
      PtrTo(PtrTo(ElementRecord("", ""))),
      PtrTo(PtrTo(ElementRecord("", "a"))) }

\* The trees of n such fields.
ContainerTrees(n) ==
    { StructV([i \in 1..n |-> StructField(<<i>>, fs[i][1], fs[i][2])]) :
        fs \in [1..n -> Tags \X ContainerValues] }

MissingFile == [exists |-> FALSE, doc |-> ZeroValue]
\* A file that does not decode (empty, malformed, of another shape).
UndecodableFile == [exists |-> TRUE, doc |-> ZeroValue]
FileOf(tree) == [exists |-> TRUE, doc |-> tree]

----------------------------------------------------------------------------
\* LoadConfig (src/yamlconfig.go:30-52)

\* The decoder writes through the pointers it is given.
RECURSIVE CanPopulate(_)
CanPopulate(cfg) ==
    /\ Kind(cfg) = "Ptr"
    /\ ~IsNil(cfg)
    /\ \/ Kind(Elem(cfg)) = "Struct"
       \/ CanPopulate(Elem(cfg))

RECURSIVE DecodeInto(_, _)
DecodeInto(doc, cfg) ==
    IF Kind(cfg) = "Ptr" /\ ~IsNil(cfg) THEN PtrTo(DecodeInto(doc, Elem(cfg)))
    ELSE IF Kind(cfg) = "Struct" THEN doc
    ELSE cfg

Call(fn, ok) == [fn |-> fn, ok |-> ok]

Init ==
    /\ pc = "start"
    /\ handle = FALSE
    /\ calls = <<>>
    /\ err = Nil
    /\ trace = <<>>
    /\ returned = <<>>
    /\ \/ \E n \in 0..MaxFields : \E nodes \in NodeLists(n) :
            /\ config = PtrTo(Zero(Tree(nodes)))
            /\ file \in {MissingFile, UndecodableFile, FileOf(Tree(nodes))}
       \/ \E n \in 0..MaxBadFields : \E nodes \in NodeLists(n) :
            /\ config \in BadDestinations(Zero(Tree(nodes)))
            /\ file = FileOf(Tree(nodes))

\* os.Open fails: return at once.
OpenFail ==
    /\ pc = "start"
    /\ ~file.exists
    /\ calls' = Append(calls, Call("os.Open", FALSE))
    /\ err' = Wrap("failed to load config file", OsErr)
    /\ pc' = "done"
    /\ UNCHANGED <<file, config, handle, trace, returned>>

\* os.Open succeeds; defer file.Close().
OpenOk ==
    /\ pc = "start"
    /\ file.exists
    /\ calls' = Append(calls, Call("os.Open", TRUE))
    /\ handle' = TRUE
    /\ pc' = "opened"
    /\ UNCHANGED <<file, config, err, trace, returned>>

\* A variant of the decode step: the error is noted and the call goes on.
DecodeFail_Continues ==
    /\ pc = "opened"
    /\ \/ ~IsValid(file.doc)
       \/ ~CanPopulate(config)
    /\ calls' = Append(calls, Call("Decode", FALSE))
    /\ pc' = "decoded"
    /\ UNCHANGED <<file, config, handle, err, trace, returned>>

\* d.Decode fails: return, the deferred Close runs.
DecodeFail ==
    /\ pc = "opened"
    /\ \/ ~IsValid(file.doc)
       \/ ~CanPopulate(config)
    /\ calls' = Append(calls, Call("Decode", FALSE))
    /\ err' = Wrap("failed to decode config file", YamlErr)
    /\ handle' = FALSE
    /\ pc' = "done"
    /\ UNCHANGED <<file, config, trace, returned>>

\* A variant of the decode step: the reader is kept between calls, and after
\* a decode it stands at the end of the source.
DecodeOk_ReadsToEnd ==
    /\ pc = "opened"
    /\ IsValid(file.doc)
    /\ calls' = Append(calls, Call("Decode", TRUE))
    /\ config' = IF CanPopulate(config) THEN DecodeInto(file.doc, config) ELSE config
    /\ file' = [file EXCEPT !.doc = ZeroValue]
    /\ pc' = "decoded"
    /\ UNCHANGED <<handle, err, trace, returned>>

\* d.Decode succeeds.
DecodeOk ==
    /\ pc = "opened"
    /\ IsValid(file.doc)
    /\ calls' = Append(calls, Call("Decode", TRUE))
    /\ config' = IF CanPopulate(config) THEN DecodeInto(file.doc, config) ELSE config
    /\ pc' = "decoded"
    /\ UNCHANGED <<file, handle, err, trace, returned>>

\* A variant of the validation failure: the file is closed by a call at the
\* end of the function, not by a defer, and this return comes before it.
ValidateFail_LeavesOpen ==
    /\ pc = "decoded"
    /\ LET r == validateConfig(config)
       IN  /\ r.err # NoErr
           /\ calls' = Append(calls, Call("validateConfig", FALSE))
           /\ err' = Wrap("failed to load the config", r.err)
           /\ trace' = r.trace
    /\ pc' = "done"
    /\ UNCHANGED <<file, config, handle, returned>>

\* A variant of the validation failure: the destination is reset to its zero
\* value before the error is returned.
ValidateFail_ClearsTree ==
    /\ pc = "decoded"
    /\ LET r == validateConfig(config)
       IN  /\ r.err # NoErr
           /\ calls' = Append(calls, Call("validateConfig", FALSE))
           /\ err' = Wrap("failed to load the config", r.err)
           /\ trace' = r.trace
    /\ config' = IF Kind(config) = "Ptr" /\ ~IsNil(config)
                 THEN PtrTo(Zero(Elem(config))) ELSE config
    /\ handle' = FALSE
    /\ pc' = "done"
    /\ UNCHANGED <<file, returned>>

\* validateConfig fails: return the wrapped error, the deferred Close runs.
ValidateFail ==
    /\ pc = "decoded"
    /\ LET r == validateConfig(config)
       IN  /\ r.err # NoErr
           /\ calls' = Append(calls, Call("validateConfig", FALSE))
           /\ err' = Wrap("failed to load the config", r.err)
           /\ trace' = r.trace
    /\ handle' = FALSE
    /\ pc' = "done"
    /\ UNCHANGED <<file, config, returned>>

\* validateConfig succeeds: return nil, the deferred Close runs.
ValidateOk ==
    /\ pc = "decoded"
    /\ LET r == validateConfig(config)
       IN  /\ r.err = NoErr
           /\ calls' = Append(calls, Call("validateConfig", TRUE))
           /\ err' = Nil
           /\ trace' = r.trace
    /\ handle' = FALSE
    /\ pc' = "done"
    /\ UNCHANGED <<file, config, returned>>

Next ==
    \/ OpenFail
    \/ OpenOk
    \/ DecodeFail
    \/ DecodeOk
    \/ ValidateFail
    \/ ValidateOk

Spec == Init /\ [][Next]_vars

\* The caller keeps the outcome of a call that loaded into a pointer to a
\* struct and calls LoadConfig again, on the same file, with a new zero value
\* of the same struct type.
Outcome(e, cfg) == [err |-> e, config |-> cfg]

CallAgain ==
    /\ pc = "done"
    /\ returned = <<>>
    /\ Kind(config) = "Ptr"
    /\ ~IsNil(config)
    /\ Kind(Elem(config)) = "Struct"
    /\ returned' = <<Outcome(err, config)>>
    /\ config' = PtrTo(Zero(Elem(config)))
    /\ pc' = "start"
    /\ calls' = <<>>
    /\ err' = Nil
    /\ trace' = <<>>
    /\ UNCHANGED <<file, handle>>

NextTwice ==
    \/ Next
    \/ CallAgain

SpecTwice == Init /\ [][NextTwice]_vars

\* LoadConfig called with a destination whose fields hold containers and
\* pointers to pointers.
InitContainers ==
    /\ pc = "start"
    /\ handle = FALSE
    /\ calls = <<>>
    /\ err = Nil
    /\ trace = <<>>
    /\ returned = <<>>
    /\ \E n \in 0..MaxContainerFields : \E t \in ContainerTrees(n) :
         /\ config = PtrTo(Zero(t))
         /\ file \in {MissingFile, UndecodableFile, FileOf(t)}

SpecContainers == InitContainers /\ [][Next]_vars

----------------------------------------------------------------------------
\* Vocabulary of the properties

\* validateConfig was called by this LoadConfig.
Validated == pc = "done" /\ Len(calls) = 3

IsStructPtr(v) == Kind(v) = "Ptr" /\ Kind(Elem(v)) = "Struct"

\* The decoded tree.
Root == Elem(config)

Required(f) == f.Tag # "omitempty"

\* v is a nested record: a struct, or a non-nil pointer to one.
IsRecord(v) == Kind(v) = "Struct" \/ IsStructPtr(v)
FieldsOf(v) ==
    LET s == IF Kind(v) = "Struct" THEN v ELSE Elem(v)
    IN  IF IsRecord(v) THEN { s.elems[i] : i \in 1..NumField(s) } ELSE {}

\* Every field of the tree below v.
RECURSIVE AllFields(_)
AllFields(v) == UNION { {f} \cup AllFields(f.val) : f \in FieldsOf(v) }

\* p is a proper prefix of q: the field named p encloses the field named q.
Encloses(p, q) == Len(p) < Len(q) /\ SubSeq(q, 1, Len(p)) = p

\* The emptiness of a value that is no record.
LeafEmpty(v) ==
    CASE Kind(v) = "String" -> v.str = ""
      [] Kind(v) \in LenKinds -> VLen(v) = 0
      [] Kind(v) \in IntKinds \cup UintKinds \cup FloatKinds -> v.num = 0
      [] Kind(v) = "Bool" -> FALSE
      [] Kind(v) = "Ptr" -> IsNil(v)
      [] OTHER -> FALSE

\* Every leaf below v is empty.
RECURSIVE FullyEmpty(_)
FullyEmpty(v) ==
    IF IsRecord(v) THEN \A f \in FieldsOf(v) : FullyEmpty(f.val) ELSE LeafEmpty(v)

\* A nested record is present: a pointer is non-nil, a record held by value is
\* not fully empty.
Present(v) == IF Kind(v) = "Ptr" THEN ~IsNil(v) ELSE ~FullyEmpty(v)

\* The fields below v all of whose enclosing records are present.
RECURSIVE Reachable(_)
Reachable(v) ==
    UNION { {f} \cup (IF IsRecord(f.val) /\ Present(f.val)
                      THEN Reachable(f.val) ELSE {}) : f \in FieldsOf(v) }

\* The loop of validateStruct ran for the field name.
Examined(name) == \E i \in 1..Len(trace) : trace[i] = FieldEvent(name)

\* validateStruct was called on the record of the field name.
Traversed(name) ==
    \E i \in 1..(Len(trace) - 1) :
        trace[i] = FieldEvent(name) /\ trace[i + 1] = EnterEvent

\* LoadConfig's error for a violation that names the field name.
ValidationErr(name) ==
    [prefix |-> "failed to load the config",
     cause |-> [msg |-> "missing required config item", field |-> name]]
IsMissingErr == err.cause.msg = "missing required config item"

----------------------------------------------------------------------------
\* C1: whenever LoadConfig returns success, validateStruct ran on the root,
\* every reachable required leaf field is non-empty and every reachable
\* present nested record was traversed.
C1_SuccessMeansComplete ==
    (pc = "done" /\ err = Nil) =>
        /\ IsStructPtr(config)
        /\ trace # <<>>
        /\ trace[1] = EnterEvent
        /\ \A f \in Reachable(Root) :
             /\ (Required(f) /\ ~IsRecord(f.val)) => ~LeafEmpty(f.val)
             /\ (IsRecord(f.val) /\ Present(f.val)) => Traversed(f.Name)

\* A successful load whose tree holds a non-nil pointer to a record with a
\* populated required string.
C1_Witness ==
    /\ pc = "done"
    /\ err = Nil
    /\ \E f \in Reachable(Root) :
         /\ Kind(f.val) = "Ptr"
         /\ IsRecord(f.val)
         /\ \E g \in FieldsOf(f.val) :
              Required(g) /\ g.val = StringV("a") /\ g \in Reachable(Root)

----------------------------------------------------------------------------
\* The fields without fields of their own.
Leaves(v) == { f \in AllFields(v) : FieldsOf(f.val) = {} }

\* v is the zero value of its type.
IsDefault(v) == v = Zero(v)

\* C2, as stated: if every reachable required leaf is non-empty, LoadConfig
\* succeeds.
C2_Original ==
    (Validated /\ IsStructPtr(config)) =>
        ((\A f \in Reachable(Root) :
             (Required(f) /\ FieldsOf(f.val) = {}) => ~FullyEmpty(f.val))
           => err = Nil)

\* C2, amended: if every reachable required field, leaf or nested record, is
\* non-empty (a record held by value or behind a non-nil pointer being empty
\* when every leaf below it is), LoadConfig succeeds.
C2_NoEmptyRequiredFieldSucceeds ==
    (Validated /\ IsStructPtr(config)) =>
        ((\A f \in Reachable(Root) : Required(f) => ~FullyEmpty(f.val))
           => err = Nil)

\* A successful load of a tree with a required nested record that holds a
\* populated required leaf and an empty optional one.
C2_Witness ==
    /\ Validated
    /\ err = Nil
    /\ \E f \in Reachable(Root) :
         /\ Required(f)
         /\ Kind(f.val) = "Struct"
         /\ \E g, h \in FieldsOf(f.val) :
              /\ Required(g) /\ ~FullyEmpty(g.val)
              /\ ~Required(h) /\ FullyEmpty(h.val)

\* C3, as stated: if exactly one required leaf is default and every other
\* leaf is non-default, LoadConfig fails and names that leaf.
C3_Original ==
    (Validated /\ IsStructPtr(config)) =>
        \A f \in Leaves(Root) :
            (/\ Required(f)
             /\ IsDefault(f.val)
             /\ \A g \in Leaves(Root) \ {f} : ~IsDefault(g.val))
              => err = ValidationErr(f.Name)

\* The required leaf f is the only empty leaf of the tree (a boolean is never
\* empty) and no nested record enclosing it is empty.
OnlyEmptyLeaf(f) ==
    /\ Required(f)
    /\ FullyEmpty(f.val)
    /\ \A g \in Leaves(Root) \ {f} : ~FullyEmpty(g.val)
    /\ \A g \in AllFields(Root) : Encloses(g.Name, f.Name) => ~FullyEmpty(g.val)

\* C3, amended: if exactly one leaf is empty, it is required, and it is not
\* the only leaf of a nested record enclosing it, LoadConfig fails and names
\* that leaf.
C3_OnlyEmptyLeafIsNamed ==
    (Validated /\ IsStructPtr(config)) =>
        \A f \in Leaves(Root) : OnlyEmptyLeaf(f) => err = ValidationErr(f.Name)

\* A failed load that names the only empty leaf, a field of a nested record.
C3_Witness ==
    /\ Validated
    /\ \E f \in Leaves(Root) :
         /\ OnlyEmptyLeaf(f)
         /\ Len(f.Name) = 2
         /\ err = ValidationErr(f.Name)

\* The optional records held by value that are the zero value of their type.
AbsentSections(v) ==
    { f \in AllFields(v) :
        ~Required(f) /\ Kind(f.val) = "Struct" /\ IsDefault(f.val) }

\* C4, as stated: an optional record held by value that the source leaves
\* out is not traversed and no violation comes from inside it.
C4_Original ==
    (Validated /\ IsStructPtr(config)) =>
        \A f \in AbsentSections(Root) :
            Examined(f.Name) =>
                /\ ~Traversed(f.Name)
                /\ ~(IsMissingErr /\ Encloses(f.Name, err.cause.field))

\* The optional non-nil pointers to a record.
OptPtrRecords(v) ==
    { f \in AllFields(v) :
        ~Required(f) /\ Kind(f.val) = "Ptr" /\ IsRecord(f.val) }

EmptyRequiredChildren(f) ==
    { c \in FieldsOf(f.val) : Required(c) /\ FullyEmpty(c.val) }

\* C5, as stated: a non-nil optional pointer to a record with an empty
\* required child makes LoadConfig fail naming such a child (here even when
\* no required field outside the pointed-to record is empty).
C5_Original ==
    (Validated /\ IsStructPtr(config)) =>
        \A f \in OptPtrRecords(Root) :
            (/\ EmptyRequiredChildren(f) # {}
             /\ \A g \in AllFields(Root) :
                  (Required(g) /\ ~Encloses(f.Name, g.Name)) => ~FullyEmpty(g.val))
              => \E c \in EmptyRequiredChildren(f) : err = ValidationErr(c.Name)

\* The position among its siblings of the field named name.
Ord(name) == name[Len(name)]

\* C5, amended: a non-nil optional pointer to a record that the validation
\* reaches is never named and its record is traversed; if a required child of
\* the record is empty, LoadConfig fails naming a field inside the record,
\* the first empty required child or a field below an earlier child.
C5_ReachedPointerIsValidated ==
    (Validated /\ IsStructPtr(config)) =>
        \A f \in OptPtrRecords(Root) :
            Examined(f.Name) =>
                /\ err.cause.field # f.Name
                /\ Traversed(f.Name)
                /\ EmptyRequiredChildren(f) # {} =>
                     LET first == CHOOSE c \in EmptyRequiredChildren(f) :
                                    \A d \in EmptyRequiredChildren(f) :
                                        Ord(c.Name) <= Ord(d.Name)
                         e == err.cause.field
                     IN  /\ IsMissingErr
                         /\ Encloses(f.Name, e)
                         /\ e[Len(f.Name) + 1] <= Ord(first.Name)
                         /\ e[Len(f.Name) + 1] = Ord(first.Name) => e = first.Name

\* A failed load that names the empty required child of a non-nil optional
\* pointer, after a populated required field.
C5_Witness ==
    /\ Validated
    /\ \E f \in OptPtrRecords(Root) :
         /\ Examined(f.Name)
         /\ Ord(f.Name) > 1
         /\ \E c \in EmptyRequiredChildren(f) : err = ValidationErr(c.Name)

----------------------------------------------------------------------------
\* The optional pointers that are nil.
NilOptPtrs(v) ==
    { f \in AllFields(v) : ~Required(f) /\ Kind(f.val) = "Ptr" /\ IsNil(f.val) }

\* The tree v without the field named name.
RECURSIVE Without(_, _)
Without(v, name) ==
    CASE Kind(v) = "Struct" ->
           LET kept == SelectSeq(v.elems, LAMBDA f : f.Name # name)
           IN  StructV([i \in 1..Len(kept) |->
                          StructField(kept[i].Name, kept[i].Tag,
                                      Without(kept[i].val, name))])
      [] IsStructPtr(v) -> PtrTo(Without(Elem(v), name))
      [] OTHER -> v

\* C6: an optional pointer whose key the source leaves out is still nil after
\* decoding, is never named in a violation, is not traversed, and LoadConfig
\* succeeds if the tree without that field validates.
C6_AbsentPointerIsSkipped ==
    (Validated /\ IsStructPtr(config)) =>
        \A f \in NilOptPtrs(file.doc) :
            /\ f \in NilOptPtrs(Root)
            /\ err.cause.field # f.Name
            /\ ~Traversed(f.Name)
            /\ validateConfig(PtrTo(Without(Root, f.Name))).err = NoErr
                 => err = Nil

\* A successful load in which a nil optional pointer was examined between two
\* populated required fields.
C6_Witness ==
    /\ Validated
    /\ err = Nil
    /\ \E f \in NilOptPtrs(Root) :
         /\ Examined(f.Name)
         /\ f.Name = <<2>>
         /\ Examined(<<3>>)

\* C7: no violation names a boolean field.
C7_BoolNeverMissing ==
    (Validated /\ IsMissingErr) =>
        \A f \in AllFields(Root) :
            f.Name = err.cause.field => Kind(f.val) # "Bool"

\* A successful load in which a required boolean holding false, a field of a
\* nested record, was examined.
C7_Witness ==
    /\ Validated
    /\ err = Nil
    /\ \E f \in AllFields(Root) :
         /\ Required(f)
         /\ f.val = BoolV(FALSE)
         /\ Len(f.Name) = 2
         /\ Examined(f.Name)

\* C8: no violation names a field tagged omitempty.
C8_OptionalNeverNamed ==
    (Validated /\ IsMissingErr) =>
        \A f \in AllFields(Root) :
            f.Name = err.cause.field => Required(f)

\* A failed load in which an empty optional field was examined and the
\* violation names a field of a present optional record.
C8_Witness ==
    /\ Validated
    /\ IsMissingErr
    /\ \E f, g \in AllFields(Root) :
         /\ ~Required(f) /\ FullyEmpty(f.val) /\ Examined(f.Name)
         /\ ~Required(g) /\ Encloses(g.Name, err.cause.field)

\* C9: when the destination is no pointer to a struct, validateStruct is
\* never entered and LoadConfig never returns success.
C9_BadDestinationRejected ==
    ~IsStructPtr(config) =>
        /\ trace = <<>>
        /\ pc = "done" => err # Nil

\* A load into a pointer to a pointer to a struct with a field: the decoder
\* fills it and validateConfig rejects it.
C9_Witness ==
    /\ pc = "done"
    /\ Kind(config) = "Ptr"
    /\ IsStructPtr(Elem(config))
    /\ NumField(Elem(Elem(config))) > 0
    /\ calls[Len(calls)] = Call("validateConfig", FALSE)
    /\ err = Wrap("failed to load the config", NotStructPtrErr)
    /\ trace = <<>>

\* The stages of LoadConfig and the prefix each puts on its error.
StageOrder == <<"os.Open", "Decode", "validateConfig">>
StagePrefix ==
    <<"failed to load config file", "failed to decode config file",
      "failed to load the config">>

\* C10: the stages run in the order open, decode, validate, each only after
\* the one before it succeeded; a call ends either in success after all three
\* or in the error of the one stage that failed, under that stage's prefix.
C10_StagesInOrder ==
    /\ Len(calls) <= Len(StageOrder)
    /\ \A i \in 1..Len(calls) :
         /\ calls[i].fn = StageOrder[i]
         /\ i < Len(calls) => calls[i].ok
    /\ pc # "done" => (err = Nil /\ \A i \in 1..Len(calls) : calls[i].ok)
    /\ pc = "done" =>
         /\ calls # <<>>
         /\ IF calls[Len(calls)].ok
            THEN Len(calls) = Len(StageOrder) /\ err = Nil
            ELSE /\ err.prefix = StagePrefix[Len(calls)]
                 /\ err.cause # NoErr

\* A load that stopped at the decoder: the file opened, did not decode, and
\* validateConfig was not called.
C10_Witness ==
    /\ pc = "done"
    /\ IsStructPtr(config)
    /\ calls = <<Call("os.Open", TRUE), Call("Decode", FALSE)>>
    /\ err = Wrap("failed to decode config file", YamlErr)

----------------------------------------------------------------------------
\* C11: the file is held exactly between a successful os.Open and the return
\* of LoadConfig: it is closed when LoadConfig has returned, whether the
\* decoder failed, the validation failed or the load succeeded, and no file
\* is held when os.Open failed.
C11_FileClosedOnReturn ==
    /\ pc = "done" => ~handle
    /\ handle <=> (pc \in {"opened", "decoded"})
    /\ handle => calls[1] = Call("os.Open", TRUE)
    /\ (calls # <<>> /\ ~calls[1].ok) => (~handle /\ pc = "done")

\* A load that opened the file, decoded it, failed the validation and
\* returned with the file closed.
C11_Witness ==
    /\ pc = "done"
    /\ ~handle
    /\ Len(calls) = 3
    /\ calls[1] = Call("os.Open", TRUE)
    /\ calls[3] = Call("validateConfig", FALSE)
    /\ IsMissingErr

----------------------------------------------------------------------------
\* C12: the step that runs validateConfig leaves the destination as it was,
\* on success and on a violation alike, so that the destination a failed
\* validation returns holds the tree the decoder wrote.
C12_ValidatorKeepsTree ==
    [][pc = "decoded" =>
         /\ config' = config
         /\ IsStructPtr(config) => Elem(config') = file.doc]_vars

\* A load that failed the validation and whose destination still holds the
\* populated tree of the source.
C12_Witness ==
    /\ Validated
    /\ IsMissingErr
    /\ Root = file.doc
    /\ \E f \in AllFields(Root) : f.val = StringV("a")
    /\ \E f \in AllFields(Root) : Kind(f.val) = "Ptr" /\ IsRecord(f.val)

----------------------------------------------------------------------------
----------------------------------------------------------------------------
\* The fields that hold a pointer.
PtrFields(v) == { f \in AllFields(v) : Kind(f.val) = "Ptr" }

\* C14, as stated: a pointer is empty iff it is nil, and a required non-nil
\* pointer to a record is never reported as missing.
C14_Original ==
    (Validated /\ IsStructPtr(config)) =>
        \A f \in PtrFields(Root) :
            /\ isEmpty(f.val) <=> IsNil(f.val)
            /\ (Required(f) /\ ~IsNil(f.val)) => err # ValidationErr(f.Name)

\* C14, amended: a pointer is empty iff it is nil or every leaf of the record
\* it points to is empty; a required pointer that the validation examines is
\* reported as missing, by its own name, exactly in those cases.
C14_PointerEmptyIffNilOrPointeeEmpty ==
    (Validated /\ IsStructPtr(config)) =>
        \A f \in PtrFields(Root) :
            /\ isEmpty(f.val) <=> (IsNil(f.val) \/ FullyEmpty(f.val))
            /\ (Required(f) /\ Examined(f.Name)) =>
                 (err = ValidationErr(f.Name)
                    <=> (IsNil(f.val) \/ FullyEmpty(f.val)))

\* A failed load that names a required non-nil pointer whose record holds an
\* empty string and nothing that is populated.
C14_Witness ==
    /\ Validated
    /\ \E f \in PtrFields(Root) :
         /\ Required(f)
         /\ ~IsNil(f.val)
         /\ \E g \in FieldsOf(f.val) : g.val = StringV("")
         /\ FullyEmpty(f.val)
         /\ err = ValidationErr(f.Name)

----------------------------------------------------------------------------
\* The field named p comes before the field named q depth-first, pre-order,
\* in declaration order: p encloses q, or where the two paths part p takes
\* the earlier field.
Before(p, q) ==
    \/ Encloses(p, q)
    \/ \E i \in 1..Len(p) :
         /\ i <= Len(q)
         /\ SubSeq(p, 1, i - 1) = SubSeq(q, 1, i - 1)
         /\ p[i] < q[i]

\* The names of the fields examined, in the order of their examination.
ExaminedNames ==
    LET ev == SelectSeq(trace, LAMBDA e : e.op = "field")
    IN  [i \in 1..Len(ev) |-> ev[i].name]

\* The fields in violation: reachable, required and empty.
Invalid(v) == { f \in Reachable(v) : Required(f) /\ FullyEmpty(f.val) }

\* C15: the fields are examined depth-first, pre-order, in declaration order;
\* the fields examined are the reachable fields up to the first field in
\* violation, which is the one the error names and the last one examined;
\* without a field in violation every reachable field is examined and the
\* load succeeds.
C15_PreOrderFirstViolation ==
    (Validated /\ IsStructPtr(config)) =>
        LET names == ExaminedNames
            bad == Invalid(Root)
        IN  /\ \A i \in 1..(Len(names) - 1) : Before(names[i], names[i + 1])
            /\ bad = {} =>
                 /\ err = Nil
                 /\ { names[i] : i \in 1..Len(names) }
                      = { f.Name : f \in Reachable(Root) }
            /\ bad # {} =>
                 LET first == CHOOSE f \in bad :
                                \A g \in bad \ {f} : Before(f.Name, g.Name)
                 IN  /\ err = ValidationErr(first.Name)
                     /\ names[Len(names)] = first.Name
                     /\ trace[Len(trace)] = FieldEvent(first.Name)
                     /\ { names[i] : i \in 1..Len(names) }
                          = { f.Name : f \in { g \in Reachable(Root) :
                                                 ~Before(first.Name, g.Name) } }

\* A failed load with two fields in violation: the one named lies inside a
\* nested record, and the record's later sibling, in violation too, was not
\* examined.
C15_Witness ==
    /\ Validated
    /\ \E f, g \in Invalid(Root) :
         /\ Len(f.Name) = 2
         /\ Len(g.Name) = 1
         /\ Before(f.Name, g.Name)
         /\ err = ValidationErr(f.Name)
         /\ Examined(f.Name)
         /\ ~Examined(g.Name)

----------------------------------------------------------------------------
\* The nested records held by value.
ValueRecords(v) == { f \in AllFields(v) : Kind(f.val) = "Struct" }

----------------------------------------------------------------------------
\* The required records held by value all of whose leaves are empty.
EmptyRequiredRecords(v) ==
    { f \in ValueRecords(v) : Required(f) /\ FullyEmpty(f.val) }

\* The violation names the field f, f is the last field examined and its
\* record was not entered.
NamedItself(f) ==
    /\ err = ValidationErr(f.Name)
    /\ trace[Len(trace)] = FieldEvent(f.Name)
    /\ ~Traversed(f.Name)
    /\ \A g \in AllFields(Root) : Encloses(f.Name, g.Name) => ~Examined(g.Name)

\* C17, as stated: a required record held by value all of whose leaves are
\* empty is named by the violation (here even when no required field outside
\* the record is empty).
C17_Original ==
    (Validated /\ IsStructPtr(config)) =>
        \A f \in EmptyRequiredRecords(Root) :
            (\A g \in AllFields(Root) \ {f} :
                 (Required(g) /\ ~Encloses(f.Name, g.Name)) => ~FullyEmpty(g.val))
              => NamedItself(f)

\* C17, amended: a required record held by value all of whose leaves are
\* empty, if every record enclosing it is present and no field before it is
\* in violation, is named by the violation and none of its descendants is
\* examined, whatever the tags of its leaves.
C17_ReachedEmptyRecordIsNamed ==
    (Validated /\ IsStructPtr(config)) =>
        \A f \in EmptyRequiredRecords(Root) :
            (/\ f \in Reachable(Root)
             /\ \A g \in Invalid(Root) : ~Before(g.Name, f.Name))
              => NamedItself(f)

\* A failed load that names a required record held by value, examined after
\* an earlier field, whose only leaf is optional and empty.
C17_Witness ==
    /\ Validated
    /\ \E f \in EmptyRequiredRecords(Root) :
         /\ Ord(f.Name) > 1
         /\ FieldsOf(f.val) # {}
         /\ \A g \in FieldsOf(f.val) : ~Required(g)
         /\ NamedItself(f)

----------------------------------------------------------------------------
\* The records stored in v as elements or behind a pointer to a pointer.
RECURSIVE Hidden(_)
Hidden(v) ==
    IF Kind(v) = "Struct" THEN {v}
    ELSE UNION { Hidden(v.elems[i]) : i \in 1..Len(v.elems) }

ContainerFields(v) == { f \in FieldsOf(v) : Kind(f.val) \in LenKinds }
PtrPtrFields(v) ==
    { f \in FieldsOf(v) :
        Kind(f.val) = "Ptr" /\ ~IsNil(f.val) /\ Kind(Elem(f.val)) = "Ptr" }

\* C18: validateStruct is entered for the root only and examines the root's
\* fields only; a violation names a field of the root, never a field of a
\* record stored as an element or behind a pointer to a pointer; a required
\* container that is examined is named iff it has no elements.
C18_NoDescentIntoContainers ==
    (Validated /\ IsStructPtr(config)) =>
        /\ \A i \in 1..Len(trace) :
             \/ i = 1 /\ trace[i] = EnterEvent
             \/ \E f \in FieldsOf(Root) : trace[i] = FieldEvent(f.Name)
        /\ IsMissingErr => \E f \in FieldsOf(Root) : err.cause.field = f.Name
        /\ \A f \in ContainerFields(Root) \cup PtrPtrFields(Root) :
             ~Traversed(f.Name)
        /\ \A f \in ContainerFields(Root) :
             (Required(f) /\ Examined(f.Name)) =>
                 (err = ValidationErr(f.Name) <=> VLen(f.val) = 0)

\* A successful load whose tree holds a required slice with one record and a
\* required pointer to a pointer to a record, both examined, the required
\* string of both records empty.
C18_Witness ==
    /\ Validated
    /\ err = Nil
    /\ \E f \in ContainerFields(Root), g \in PtrPtrFields(Root) :
         /\ Required(f) /\ Examined(f.Name)
         /\ Required(g) /\ Examined(g.Name)
         /\ \E r \in Hidden(f.val) : r.elems[1].val = StringV("")
         /\ \E r \in Hidden(g.val) : r.elems[1].val = StringV("")

====
